---- MODULE Spec2Model ----
EXTENDS Integers, Sequences, FiniteSets, TLC

(***************************************************************************)
(* Model of the owned-token indexer of betta-backend (src/server.js):      *)
(* updateOwnedTokensForWallet scans the Transfer logs of the NFT contract  *)
(* in chunks of LOG_CHUNK blocks and keeps, per wallet, a checkpoint        *)
(* {lastScannedBlock, tokenIds} in ownedCache and in wallet-owned.json.     *)
(* Every await of the function is a step boundary of the model.            *)
(***************************************************************************)

\* ---------------------------------------------------------------- bounds
MaxBlocks == 2      \* blocks mined on top of the block before START_BLOCK
MaxEvents == 3      \* Transfer events of the whole history
MaxChunk == 2       \* largest LOG_CHUNK configured
MaxToken == 1       \* token ids 1..MaxToken
MaxCalls == 2       \* refresh calls made in one run, each in its own slot
MaxEndpoints == 3   \* most endpoints configured in RPC_URLS
MaxRpc == 3         \* provider calls made in one run, each in its own slot
MaxInFlight == 2    \* provider calls under way at the same time
MaxSpan == 5        \* blocks of the longest scan of the range checks
MaxIds == 3         \* token ids in the set of the scan whose sort is checked
MaxNow == 5         \* the clock runs from the first request to this time
MaxFishes == 1      \* fishes in the body of one POST /progress

Wallets == {"wa", "wb"}          \* wallets that are queried
Addrs == Wallets \cup {"zz"}     \* "zz": any other holder (mint source, market)
Tokens == 1..MaxToken
Procs == 1..MaxCalls
Rpcs == 1..MaxRpc

\* the endpoint urls a configuration is taken from, in configured order
Urls == <<"A", "B", "C", "D">>

\* the endpoint used when RPC_URLS is empty ("https://mainnet.base.org")
DefaultUrl == "M"

VARIABLES
  START_BLOCK,   \* config: first block of the contract
  LOG_CHUNK,     \* config: blocks per eth_getLogs range
  head,          \* the chain head the providers answer with
  events,        \* Transfer logs of the contract, in block order
  ownedCache,    \* in-memory checkpoint map, wallet -> entry
  ownedFile,     \* content of data/wallet-owned.json
  calls,         \* per request slot: the locals of updateOwnedTokensForWallet
  lastWriter,    \* history: per wallet, the call whose write of the file came last
  BETTA_CONTRACT,\* config: address of the NFT contract, "" when not set
  RPC_URLS,      \* config: the provider endpoints, in configured order
  rpcCursor,     \* where the next rotation of the endpoints starts
  behaviour,     \* environment: how each endpoint answers
  rpcs,          \* per provider call: the locals of rpc()
  EXP_PER_FEED,  \* config: exp one feed gives
  FEED_COOLDOWN_MS, \* config: time between two feeds of a token
  now,           \* Date.now()
  progressDb,    \* in-memory progress map, key -> row object (its address)
  heap,          \* the row objects, by address
  progressFile,  \* content of data/database-fish.json, key -> row
  reply,         \* the last response of POST /feed or POST /progress
  okAt           \* history: per token, when a feed was last answered ok: true

\* the configuration and the state of the provider calls
netVars == <<BETTA_CONTRACT, RPC_URLS, rpcCursor, behaviour, rpcs>>

\* the state of the indexer, which a provider call does not touch
idxVars == <<START_BLOCK, LOG_CHUNK, head, events, ownedCache, ownedFile, calls,
             lastWriter>>

\* the configuration and the state of the progression engine
feedVars == <<EXP_PER_FEED, FEED_COOLDOWN_MS, now, progressDb, heap, progressFile,
              reply, okAt>>

vars == <<START_BLOCK, LOG_CHUNK, head, events, ownedCache, ownedFile, calls,
          lastWriter, BETTA_CONTRACT, RPC_URLS, rpcCursor, behaviour, rpcs,
          EXP_PER_FEED, FEED_COOLDOWN_MS, now, progressDb, heap, progressFile,
          reply, okAt>>

\* ------------------------------------------------------- pure functions

\* JS null of lastScannedBlock; a decimal string is a non-empty digit sequence.
Null == <<>>

RECURSIVE ToStr(_)
\* String(bigint) / bigint.toString(): the decimal digits of n.
ToStr(n) == IF n < 10 THEN <<n>> ELSE ToStr(n \div 10) \o <<n % 10>>

RECURSIVE BigInt(_)
\* BigInt(decimalString): the exact integer the digits denote.
BigInt(s) == IF Len(s) = 0 THEN 0
             ELSE 10 * BigInt(SubSeq(s, 1, Len(s) - 1)) + s[Len(s)]

RECURSIVE LexLess(_, _)
\* a < b for digit sequences of the same length
LexLess(a, b) ==
  IF a = <<>> THEN FALSE
  ELSE IF a[1] # b[1] THEN a[1] < b[1]
  ELSE LexLess(Tail(a), Tail(b))

\* a < b for the integers two decimal strings denote
DigitsLess(a, b) == Len(a) < Len(b) \/ (Len(a) = Len(b) /\ LexLess(a, b))

RECURSIVE PlusOne(_)
\* the decimal string of n + 1
PlusOne(s) ==
  IF s = <<>> THEN <<1>>
  ELSE IF s[Len(s)] < 9 THEN [s EXCEPT ![Len(s)] = @ + 1]
  ELSE Append(PlusOne(SubSeq(s, 1, Len(s) - 1)), 0)

\* the decimal string of n - 1, for an odd n
MinusOne(s) == [s EXCEPT ![Len(s)] = @ - 1]

\* 2^53 = 9007199254740992: up to it every integer is a double
Two53 == <<9, 0, 0, 7, 1, 9, 9, 2, 5, 4, 7, 4, 0, 9, 9, 2>>

\* variant of the comparator that compares the exact integers
NumberExact(s) == s

\* Number(decimalString): the double nearest to the integer, written as the
\* decimal string of its value. Below 2^53 that is the integer itself; from
\* 2^53 up to 2^54 (the identifiers of this model end there) the doubles are
\* the even integers, and an odd integer goes to the neighbour whose mantissa
\* is even, which is the one divisible by 4.
Number(s) ==
  IF DigitsLess(s, Two53) THEN s
  ELSE LET r == (10 * s[Len(s) - 1] + s[Len(s)]) % 4
       IN IF r = 1 THEN MinusOne(s) ELSE IF r = 3 THEN PlusOne(s) ELSE s

Range(s) == {s[i] : i \in 1..Len(s)}

\* Set.prototype.add on an insertion-ordered Set.
SetAdd(s, x) == IF x \in Range(s) THEN s ELSE Append(s, x)

\* Set.prototype.delete.
SetDelete(s, x) == SelectSeq(s, LAMBDA y : y # x)

RECURSIVE NewSet(_)
\* new Set(arr.map(String)): the distinct elements in first-occurrence order.
NewSet(arr) == IF arr = <<>> THEN <<>>
               ELSE SetAdd(NewSet(SubSeq(arr, 1, Len(arr) - 1)), arr[Len(arr)])

RECURSIVE InsertByNumber(_, _)
\* x is put before the elements the comparator puts after it:
\* Number(y) - Number(x) > 0
InsertByNumber(sorted, x) ==
  IF sorted = <<>> THEN <<x>>
  ELSE IF DigitsLess(Number(x), Number(sorted[Len(sorted)]))
       THEN Append(InsertByNumber(SubSeq(sorted, 1, Len(sorted) - 1), x),
                   sorted[Len(sorted)])
       ELSE Append(sorted, x)

RECURSIVE SortByNumber(_)
\* Array.from(set).sort((a, b) => Number(a) - Number(b)), a stable sort.
SortByNumber(arr) ==
  IF arr = <<>> THEN <<>>
  ELSE InsertByNumber(SortByNumber(SubSeq(arr, 1, Len(arr) - 1)), arr[Len(arr)])

\* The tokenId field of a log stands for topics[3]: the number a hex string
\* denotes, NoTopic when the log has no fourth topic, BadTopic when the topic
\* is a string BigInt() does not parse. NoTokenId is the null tokenIdFromLog
\* returns.
NoTokenId == -1

NoTopic == -2

BadTopic == -3

\* faulty variant: the topic is used as it is
tokenIdFromLogUnchecked(lg) == lg.tokenId

\* tokenIdFromLog: topics[3] as a BigInt, null when it is missing or when
\* BigInt() throws.
tokenIdFromLog(lg) ==
  IF lg.tokenId = NoTopic THEN NoTokenId
  ELSE IF lg.tokenId = BadTopic THEN NoTokenId
  ELSE lg.tokenId

\* a null topic of the filter: any address matches
AnyAddr == "any"

\* eth_getLogs for the Transfer signature, a block range and one address topic.
getTransferLogs(evs, fromBlock, toBlock, fromAddr, toAddr) ==
  SelectSeq(evs, LAMBDA e :
     /\ fromBlock <= e.blockNumber /\ e.blockNumber <= toBlock
     /\ (fromAddr # AnyAddr => e.fromAddress = fromAddr)
     /\ (toAddr # AnyAddr => e.toAddress = toAddr))

RECURSIVE AddLogs(_, _)
\* for (const lg of logsTo) set.add(tid.toString())
AddLogs(s, logs) ==
  IF logs = <<>> THEN s
  ELSE LET tid == tokenIdFromLog(Head(logs))
       IN AddLogs(IF tid # NoTokenId THEN SetAdd(s, ToStr(tid)) ELSE s, Tail(logs))

\* faulty variant: the outgoing logs are not applied
DeleteLogsSkipped(s, logs) == s

RECURSIVE DeleteLogs(_, _)
\* for (const lg of logsFrom) set.delete(tid.toString())
DeleteLogs(s, logs) ==
  IF logs = <<>> THEN s
  ELSE LET tid == tokenIdFromLog(Head(logs))
       IN DeleteLogs(IF tid # NoTokenId THEN SetDelete(s, ToStr(tid)) ELSE s,
                     Tail(logs))

\* const to = from + LOG_CHUNK - 1n > latest ? latest : from + LOG_CHUNK - 1n
ChunkTo(from, latest, chunk) ==
  IF from + chunk - 1 > latest THEN latest ELSE from + chunk - 1

\* the fresh entry used when the wallet has no checkpoint
NoEntry == [lastScannedBlock |-> Null, tokenIds |-> <<>>]

\* ownedCache[w] || { lastScannedBlock: null, tokenIds: [] }
EntryOf(cache, w) == IF w \in DOMAIN cache THEN cache[w] ELSE NoEntry

\* faulty variant: every scan starts at START_BLOCK
StartOfGenesis(e, startBlock) == startBlock

\* start = START_BLOCK, or prev + 1 when that is larger
StartOf(e, startBlock) ==
  IF e.lastScannedBlock # Null /\ BigInt(e.lastScannedBlock) + 1 > startBlock
  THEN BigInt(e.lastScannedBlock) + 1
  ELSE startBlock

\* faulty variant: the scan forgets the tokens of the prior checkpoint
SeedSetEmpty(e) == <<>>

\* the set a scan starts from
SeedSet(e) == NewSet(e.tokenIds)

\* if (start > latest): no block is left to scan
NothingToScan(start, latest) == start > latest

\* faulty variant: the loop ends one block early
LoopDoneOffByOne(from, latest) == from >= latest

\* the loop has run past latest
LoopDone(from, latest) == from > latest

\* faulty variant: the new entry is merged into the stored one, not put in its place
PutMerged(cache, w, e) ==
  [x \in DOMAIN cache \cup {w} |->
     IF x # w THEN cache[x]
     ELSE IF w \in DOMAIN cache
          THEN [e EXCEPT !.tokenIds = SortByNumber(NewSet(cache[w].tokenIds \o e.tokenIds))]
          ELSE e]

\* ownedCache[w] = {...}
Put(cache, w, e) ==
  [x \in DOMAIN cache \cup {w} |-> IF x = w THEN e ELSE cache[x]]

\* faulty variant: the checkpoint names the block after the answered head
NewEntryAhead(latest, s) ==
  [lastScannedBlock |-> ToStr(latest + 1), tokenIds |-> SortByNumber(s)]

\* the checkpoint object a finished scan builds
NewEntry(latest, s) ==
  [lastScannedBlock |-> ToStr(latest), tokenIds |-> SortByNumber(s)]

\* writeFileSync(tmp) + renameSync(tmp, file): the file is replaced as a whole
\* or, when either call throws, left as it was.
writeJsonAtomic(file, obj, ok) == IF ok THEN obj ELSE file

\* ---------------------------------------------- the provider endpoints

\* faulty variant: the rotation is returned but the cursor stays
pickWithoutAdvance(urls, cursor) ==
  IF Len(urls) = 0
  THEN [ordered |-> <<DefaultUrl>>, cursor |-> cursor]
  ELSE [ordered |-> [i \in 1..Len(urls) |-> urls[((cursor + i - 1) % Len(urls)) + 1]],
        cursor |-> cursor]

\* The rotation of urls that starts at cursor, with the cursor for the next
\* call; with no url configured, the default endpoint and the cursor as it was.
pickRpcUrlsRoundRobin(urls, cursor) ==
  IF Len(urls) = 0
  THEN [ordered |-> <<DefaultUrl>>, cursor |-> cursor]
  ELSE [ordered |-> [i \in 1..Len(urls) |-> urls[((cursor + i - 1) % Len(urls)) + 1]],
        cursor |-> (cursor + 1) % Len(urls)]

\* The message of the error an attempt throws, as the sequence of its parts:
\* `RPC HTTP ${r.status}: ${text}` of a response that is not ok.
ErrorOf(ans) ==
  IF ans = "transient" THEN <<"RPC", "HTTP 503", ": ">>
  ELSE <<"RPC", "HTTP 401", ": ">>

\* String.prototype.toLowerCase on the parts of a message
ToLowerCase(part) ==
  IF part = "RPC" THEN "rpc"
  ELSE IF part = "WB" THEN "wb"
  ELSE IF part = "HTTP 503" THEN "http 503"
  ELSE IF part = "HTTP 401" THEN "http 401"
  ELSE part

\* the substrings shouldFailover looks for
FailoverSignals ==
  {"no backend is currently healthy", "http 503", "http 502", "http 504",
   "rate", "timeout", "timed out", "gateway", "temporarily", "busy"}

\* faulty variant: no error counts as transient
shouldFailoverNever(msg) == FALSE

\* faulty variant: every error counts as transient
shouldFailoverAlways(msg) == TRUE

\* the lower-cased message includes one of the signals
shouldFailover(msg) ==
  \E i \in 1..Len(msg) : ToLowerCase(msg[i]) \in FailoverSignals

\* faulty variant: a third attempt on every endpoint
BackoffsThree == <<0, 350, 700>>

\* for (const backoff of [0, 350]): the attempts made on one endpoint
Backoffs == <<0, 350>>

\* lastErr = null, and the result of a call that has not returned
NoErr == [msg |-> <<>>, url |-> "", n |-> 0]

NoResult == [from |-> ""]

\* ----------------------------------------------------------- validation

\* BETTA_CONTRACT when the environment sets it, and when it does not
Contract == "0xc"

NoContract == ""

\* the wallet parameter as requests send it: a wallet, a wallet in upper case
\* or with blanks around it, no hex address, nothing
Queries == Wallets \cup {"WA", " wb ", "0x12", ""}

\* String(q || "").trim().toLowerCase()
Normalize(q) == IF q = "WA" THEN "wa" ELSE IF q = " wb " THEN "wb" ELSE q

\* faulty variant: every string passes as an address
isHexAddressAny(addr) == TRUE

\* /^0x[a-fA-F0-9]{40}$/ on the trimmed string
isHexAddress(addr) == Normalize(addr) \in Wallets

\* The checks GET /owned makes before anything else: the wallet, then the
\* contract; "none" when the request passes both.
OwnedCheck(contract, q) ==
  IF ~isHexAddress(Normalize(q)) THEN "INVALID_WALLET"
  ELSE IF contract = NoContract THEN "MISSING_CONTRACT_ENV"
  ELSE "none"

\* The checks updateOwnedTokensForWallet makes itself: the contract, then the
\* wallet; "none" when it goes on to eth_blockNumber.
RefreshCheck(contract, wallet) ==
  IF contract = NoContract THEN "BETTA_CONTRACT_ADDRESS not set"
  ELSE IF ~isHexAddress(Normalize(wallet)) THEN "INVALID_WALLET"
  ELSE "none"

\* ----------------------------------------------------------------- state

\* A slot holds the locals of one call (w, entry, latest, from, set), where the
\* call stands (pc), what it threw (err) and what it returned (ret). after is
\* the set of calls that had already ended when this one was made, asked the
\* eth_getLogs queries the call has sent, in the order it sent them, answered
\* how many of them have come back with their logs. cached
\* is the flag of the answer of GET /owned: the request was answered from
\* ownedCache without a call of updateOwnedTokensForWallet.
Idle == [pc |-> "idle", w |-> "wa", entry |-> NoEntry, latest |-> 0,
         from |-> 0, set |-> <<>>, err |-> "none", ret |-> NoEntry,
         after |-> {}, asked |-> <<>>, answered |-> 0, cached |-> FALSE]

\* the filter of one eth_getLogs query: the block range and which topic holds
\* the wallet ("to": topics[2], "from": topics[1])
Query(from, to, topic) == [fromBlock |-> from, toBlock |-> to, topic |-> topic]

\* faulty variant: the two queries of a chunk are sent together
SendBoth(asked, from, to) ==
  asked \o <<Query(from, to, "to"), Query(from, to, "from")>>

\* await getTransferLogs({ fromBlock: from, toBlock: to, toAddr: w }) is
\* reached: the incoming query of the chunk is sent
SendIncoming(asked, from, to) == Append(asked, Query(from, to, "to"))

\* A slot of rpcs holds the locals of one call of rpc(): the rotation it got
\* (urls), the endpoint and the attempt it is at (i, k), lastErr, and how it
\* ended (out returned, or err thrown). tried is the list of its attempts.
RpcIdle == [pc |-> "idle", urls |-> <<>>, i |-> 0, k |-> 0, lastErr |-> NoErr,
            out |-> NoResult, err |-> NoErr, tried |-> <<>>]

\* the endpoints in use: RPC_URLS, or the default one when none is configured
Pool(urls) == IF Len(urls) = 0 THEN <<DefaultUrl>> ELSE urls

\* how an endpoint answers: always with a result, always with a transient
\* error, or differently from attempt to attempt
Modes == {"up", "down", "flaky"}

Answers(mode) ==
  IF mode = "up" THEN {"ok"}
  ELSE IF mode = "down" THEN {"transient"}
  ELSE {"ok", "transient", "fatal"}

\* one endpoint and the contract configured, no provider call being looked at
NetQuiet ==
  /\ BETTA_CONTRACT = Contract
  /\ RPC_URLS = <<"A">>
  /\ rpcCursor = 0
  /\ behaviour = [u \in {"A"} |-> "flaky"]
  /\ rpcs = [r \in Rpcs |-> RpcIdle]

\* ------------------------------------------------- the progression engine

\* a request field that is absent: walletAddress "", tokenId "", rarity "",
\* fid null; NoWallet is the null stored for a row without wallet
NoFid == -1

NoWallet == "null"

\* MAX_LEVEL_BY_RARITY
MAX_LEVEL_BY_RARITY ==
  [COMMON |-> 15, UNCOMMON |-> 20, RARE |-> 30, SPIRIT |-> 25, EPIC |-> 40,
   LEGENDARY |-> 50]

Max(a, b) == IF a > b THEN a ELSE b

\* Math.max(0, 100 + Math.max(0, level - 1) * 40)
expNeededForNext(level) == Max(0, 100 + Max(0, level - 1) * 40)

\* String(r || "").toUpperCase() of the rarities requests send
ToUpperCase(r) ==
  IF r = "uncommon" THEN "UNCOMMON" ELSE IF r = "fish" THEN "FISH" ELSE r

\* normalizeRarity: one of the six names, COMMON for anything else
normalizeRarity(r) ==
  IF ToUpperCase(r) \in DOMAIN MAX_LEVEL_BY_RARITY THEN ToUpperCase(r)
  ELSE "COMMON"

\* MAX_LEVEL_BY_RARITY[rarity] || 15
getMaxLevel(rarity) ==
  IF rarity \in DOMAIN MAX_LEVEL_BY_RARITY THEN MAX_LEVEL_BY_RARITY[rarity] ELSE 15

\* progressKey: `${w}:${tokenIdStr}` with the wallet in lower case, the bare
\* tokenIdStr without wallet; a key is the pair of its two parts
progressKey(walletAddress, tokenIdStr) == <<ToLowerCase(walletAddress), tokenIdStr>>

\* walletAddress || row.walletAddress || null
WalletOr(walletAddress, old) ==
  IF walletAddress # "" THEN walletAddress ELSE old

\* fid ?? row.fid ?? null
FidOr(fid, old) == IF fid # NoFid THEN fid ELSE old

\* the row of a token that has no row yet
FreshRow(tokenIdStr, rar, walletAddress, fid) ==
  [tokenId |-> tokenIdStr, rarity |-> rar, level |-> 1, exp |-> 0,
   lastFeedAt |-> 0, walletAddress |-> WalletOr(walletAddress, NoWallet),
   fid |-> fid]

\* progressDb[key] || progressDb[tokenIdStr]: the address of the row, 0 when
\* there is none
Lookup(db, walletAddress, tokenIdStr) ==
  IF progressKey(walletAddress, tokenIdStr) \in DOMAIN db
  THEN db[progressKey(walletAddress, tokenIdStr)]
  ELSE IF <<"", tokenIdStr>> \in DOMAIN db THEN db[<<"", tokenIdStr>>]
  ELSE 0

\* variant of getOrInitProgress that works on a copy of the stored row
getOrInitProgressCopy(db, hp, tokenIdStr, rarity, walletAddress, fid) ==
  LET a == Lookup(db, walletAddress, tokenIdStr)
  IN [key |-> progressKey(walletAddress, tokenIdStr), addr |-> a, heap |-> hp,
      row |-> IF a = 0
              THEN FreshRow(tokenIdStr, normalizeRarity(rarity), walletAddress, fid)
              ELSE [hp[a] EXCEPT !.tokenId = tokenIdStr,
                                 !.rarity = normalizeRarity(rarity),
                                 !.walletAddress = WalletOr(walletAddress, @),
                                 !.fid = FidOr(fid, @)]]

\* getOrInitProgress: the key and the row; a row that exists is the stored
\* object itself, and tokenId, rarity, walletAddress and fid are assigned on
\* it, so that heap changes
getOrInitProgress(db, hp, tokenIdStr, rarity, walletAddress, fid) ==
  LET a == Lookup(db, walletAddress, tokenIdStr)
      row == IF a = 0
             THEN FreshRow(tokenIdStr, normalizeRarity(rarity), walletAddress, fid)
             ELSE [hp[a] EXCEPT !.tokenId = tokenIdStr,
                                !.rarity = normalizeRarity(rarity),
                                !.walletAddress = WalletOr(walletAddress, @),
                                !.fid = FidOr(fid, @)]
  IN [key |-> progressKey(walletAddress, tokenIdStr), addr |-> a, row |-> row,
      heap |-> IF a = 0 THEN hp ELSE [hp EXCEPT ![a] = row]]

\* Number(row.level || 1)
LevelOf(row) == IF row.level = 0 THEN 1 ELSE row.level

RECURSIVE Gain(_, _, _)
\* the while loop of POST /feed: levels are gained while exp covers the need
Gain(level, exp, maxLevel) ==
  IF level >= maxLevel THEN [level |-> level, exp |-> exp]
  ELSE IF expNeededForNext(level) <= 0 \/ exp < expNeededForNext(level)
       THEN [level |-> level, exp |-> exp]
       ELSE Gain(level + 1, exp - expNeededForNext(level), maxLevel)

\* JSON.stringify(progressDb): every key with the value of its row
Serialize(db, hp) == [k \in DOMAIN db |-> hp[db[k]]]

\* the response before any request
NoReply == [op |-> "none", status |-> 0, error |-> "none"]

\* no feed answered ok: true yet
Never == -1

\* the progression engine at rest
FeedQuiet ==
  /\ EXP_PER_FEED = 20
  /\ FEED_COOLDOWN_MS = 2
  /\ now = 2
  /\ progressDb = <<>>
  /\ heap = <<>>
  /\ progressFile = <<>>
  /\ reply = NoReply
  /\ okAt = [t \in {ToStr(1)} |-> Never]

Ended(c) == c.pc \in {"done", "failed"}

Running(c) == c.pc \in {"head", "logsTo", "logsFrom"}

MaxHead == START_BLOCK - 1 + MaxBlocks

\* the queries of one call that are kept in asked: more than any scan of
\* MaxSpan blocks sends, so that only the history of a loop that makes no
\* progress is cut off (the loop itself goes on)
MaxAsked == 2 * MaxSpan + 2

\* the history of the queries and the count of the answers, kept up to MaxAsked
Kept(asked, longer) == IF Len(asked) < MaxAsked THEN longer ELSE asked

Counted(answered) == IF answered < MaxAsked THEN answered + 1 ELSE answered

Init ==
  /\ START_BLOCK = 1
  /\ LOG_CHUNK \in 1..MaxChunk
  /\ head = START_BLOCK - 1
  /\ events = <<>>
  /\ ownedCache = <<>>
  /\ ownedFile = <<>>
  /\ calls = [p \in Procs |-> Idle]
  /\ lastWriter = [w \in Wallets |-> 0]
  /\ NetQuiet
  /\ FeedQuiet

\* ----------------------------------------------------------- the chain

\* the holder of token t after the Transfer events evs ("zz" before any)
OwnerOf(evs, t) ==
  LET idx == {i \in 1..Len(evs) : evs[i].tokenId = t}
  IN IF idx = {} THEN "zz"
     ELSE evs[CHOOSE i \in idx : \A j \in idx : j <= i].toAddress

\* A Transfer of token t to address to, emitted in the block being built
\* (head + 1); it is visible to eth_getLogs once that block is mined.
Transfer(t, to) ==
  /\ Len(events) < MaxEvents
  /\ head < MaxHead
  /\ to # OwnerOf(events, t)
  /\ events' = Append(events, [blockNumber |-> head + 1,
                               fromAddress |-> OwnerOf(events, t),
                               toAddress |-> to, tokenId |-> t])
  /\ UNCHANGED <<feedVars, netVars, START_BLOCK, LOG_CHUNK, head, ownedCache, ownedFile, calls,
                 lastWriter>>

Mine ==
  /\ head < MaxHead
  /\ head' = head + 1
  /\ UNCHANGED <<feedVars, netVars, START_BLOCK, LOG_CHUNK, events, ownedCache, ownedFile, calls,
                 lastWriter>>

\* ------------------------------------------- updateOwnedTokensForWallet

\* The call up to its first await: the entry is read, eth_blockNumber is sent.
Call(p, w) ==
  /\ calls[p].pc = "idle"
  /\ OwnedCheck(BETTA_CONTRACT, w) = "none"
  /\ RefreshCheck(BETTA_CONTRACT, w) = "none"
  /\ \A q \in Procs : q < p => calls[q].pc # "idle"
  /\ calls' = [calls EXCEPT ![p] =
                 [Idle EXCEPT !.pc = "head", !.w = Normalize(w),
                              !.entry = EntryOf(ownedCache, Normalize(w)),
                              !.after = {q \in Procs : Ended(calls[q])}]]
  /\ UNCHANGED <<feedVars, netVars, START_BLOCK, LOG_CHUNK, head, events, ownedCache, ownedFile,
                 lastWriter>>

\* The synchronous tail of the function: sort, assign ownedCache[w], write
\* the file, return the entry (or throw what writeJsonAtomic throws).
Commit(p, c, s, ok) ==
  /\ ownedCache' = Put(ownedCache, c.w, NewEntry(c.latest, s))
  /\ ownedFile' = writeJsonAtomic(ownedFile, ownedCache', ok)
  /\ calls' = [calls EXCEPT ![p] =
                 [c EXCEPT !.pc = IF ok THEN "done" ELSE "failed",
                           !.from = 0, !.set = <<>>,
                           !.ret = IF ok THEN ownedCache'[c.w] ELSE NoEntry,
                           !.err = IF ok THEN "none" ELSE "storage"]]
  /\ lastWriter' = IF ok THEN [lastWriter EXCEPT ![c.w] = p] ELSE lastWriter

\* eth_blockNumber answers h: start and the set are computed; with nothing to
\* scan (or a loop that does not run) the checkpoint is written at once,
\* otherwise the first chunk's incoming query is sent.
BlockNumberReturns(p, h) ==
  LET c == [calls[p] EXCEPT !.latest = h,
                            !.from = StartOf(calls[p].entry, START_BLOCK),
                            !.set = SeedSet(calls[p].entry)]
  IN /\ calls[p].pc = "head"
     /\ IF NothingToScan(c.from, c.latest) \/ LoopDone(c.from, c.latest)
        THEN \E ok \in BOOLEAN : Commit(p, c, c.set, ok)
        ELSE /\ calls' = [calls EXCEPT ![p] =
                  [c EXCEPT !.pc = "logsTo",
                            !.asked = SendIncoming(<<>>, c.from,
                                         ChunkTo(c.from, c.latest, LOG_CHUNK))]]
             /\ UNCHANGED <<ownedCache, ownedFile, lastWriter>>
     /\ UNCHANGED <<feedVars, netVars, START_BLOCK, LOG_CHUNK, head, events>>

\* the provider answers with the chain head
BlockNumberOk(p) ==
  /\ calls[p].pc = "head"
  /\ BlockNumberReturns(p, head)

\* rpc() throws (a fatal error, or every endpoint exhausted): the call rejects.
RpcThrows(p) ==
  /\ calls' = [calls EXCEPT ![p].pc = "failed", ![p].err = "provider",
                            ![p].set = <<>>]
  /\ UNCHANGED <<feedVars, netVars, START_BLOCK, LOG_CHUNK, head, events, ownedCache, ownedFile,
                 lastWriter>>

BlockNumberFail(p) ==
  /\ calls[p].pc = "head"
  /\ RpcThrows(p)

\* The incoming query of the chunk answers: its token ids are added.
LogsToOk(p) ==
  LET c == calls[p]
      to == ChunkTo(c.from, c.latest, LOG_CHUNK)
      logsTo == getTransferLogs(events, c.from, to, AnyAddr, c.w)
  IN /\ c.pc = "logsTo"
     /\ calls' = [calls EXCEPT ![p].set = AddLogs(c.set, logsTo),
                               ![p].pc = "logsFrom",
                               ![p].answered = Counted(c.answered),
                               ![p].asked = Kept(c.asked,
                                  Append(c.asked, Query(c.from, to, "from")))]
     /\ UNCHANGED <<feedVars, netVars, START_BLOCK, LOG_CHUNK, head, events, ownedCache, ownedFile,
                 lastWriter>>

LogsToFail(p) ==
  /\ calls[p].pc = "logsTo"
  /\ RpcThrows(p)

\* The outgoing query of the chunk answers: its token ids are deleted, the
\* loop steps to the next chunk, and after the last chunk the result is
\* committed in the same turn.
LogsFromOk(p) ==
  LET c == calls[p]
      to == ChunkTo(c.from, c.latest, LOG_CHUNK)
      logsFrom == getTransferLogs(events, c.from, to, c.w, AnyAddr)
      s == DeleteLogs(c.set, logsFrom)
      next == c.from + LOG_CHUNK
  IN /\ c.pc = "logsFrom"
     /\ IF LoopDone(next, c.latest)
        THEN \E ok \in BOOLEAN :
                Commit(p, [c EXCEPT !.from = next, !.answered = Counted(c.answered)],
                       s, ok)
        ELSE /\ calls' = [calls EXCEPT ![p].set = s, ![p].from = next,
                                       ![p].pc = "logsTo",
                                       ![p].answered = Counted(c.answered),
                                       ![p].asked = Kept(c.asked,
                                          SendIncoming(c.asked, next,
                                             ChunkTo(next, c.latest, LOG_CHUNK)))]
             /\ UNCHANGED <<ownedCache, ownedFile, lastWriter>>
     /\ UNCHANGED <<feedVars, netVars, START_BLOCK, LOG_CHUNK, head, events>>

LogsFromFail(p) ==
  /\ calls[p].pc = "logsFrom"
  /\ RpcThrows(p)

\* A provider that lags behind answers eth_blockNumber with an older head.
BlockNumberLag(p) ==
  /\ calls[p].pc = "head"
  /\ \E h \in (START_BLOCK - 1)..head : BlockNumberReturns(p, h)

\* A call made while no other call is running.
CallAlone(p, w) ==
  /\ \A q \in Procs : ~Running(calls[q])
  /\ Call(p, w)

Next ==
  \/ \E t \in Tokens, to \in Addrs : Transfer(t, to)
  \/ Mine
  \/ \E p \in Procs, w \in Wallets : Call(p, w)
  \/ \E p \in Procs : BlockNumberOk(p)
  \/ \E p \in Procs : BlockNumberFail(p)
  \/ \E p \in Procs : LogsToOk(p)
  \/ \E p \in Procs : LogsToFail(p)
  \/ \E p \in Procs : LogsFromOk(p)
  \/ \E p \in Procs : LogsFromFail(p)

Spec == Init /\ [][Next]_vars

\* Calls one after the other, against providers whose head may lag.
NextLag ==
  \/ \E t \in Tokens, to \in Addrs : Transfer(t, to)
  \/ Mine
  \/ \E p \in Procs, w \in Wallets : CallAlone(p, w)
  \/ \E p \in Procs : BlockNumberLag(p)
  \/ \E p \in Procs : BlockNumberFail(p)
  \/ \E p \in Procs : LogsToOk(p)
  \/ \E p \in Procs : LogsToFail(p)
  \/ \E p \in Procs : LogsFromOk(p)
  \/ \E p \in Procs : LogsFromFail(p)

SpecLag == Init /\ [][NextLag]_vars

\* The scenario of the specification's section 8: genesis block 100, chunk
\* size 50, head 120, token 7 received by the wallet at block 105; the head
\* then advances to 130, where the wallet sends token 7 away.
InitScenario ==
  /\ START_BLOCK = 100
  /\ LOG_CHUNK = 50
  /\ head = 120
  /\ events = <<[blockNumber |-> 105, fromAddress |-> "zz",
                 toAddress |-> "wa", tokenId |-> 7]>>
  /\ ownedCache = <<>>
  /\ ownedFile = <<>>
  /\ calls = [p \in Procs |-> Idle]
  /\ lastWriter = [w \in Wallets |-> 0]
  /\ NetQuiet
  /\ FeedQuiet

\* token 7 leaves the wallet in block 130, the block being built at head 129
SendAway ==
  /\ head = 129
  /\ Len(events) = 1
  /\ events' = Append(events, [blockNumber |-> 130, fromAddress |-> "wa",
                               toAddress |-> "zz", tokenId |-> 7])
  /\ UNCHANGED <<feedVars, netVars, START_BLOCK, LOG_CHUNK, head, ownedCache, ownedFile, calls,
                 lastWriter>>

\* blocks 121 .. 130 are mined, block 130 with the transfer in it
MineScenario ==
  /\ head < 130
  /\ head = 129 => Len(events) = 2
  /\ head' = head + 1
  /\ UNCHANGED <<feedVars, netVars, START_BLOCK, LOG_CHUNK, events, ownedCache, ownedFile, calls,
                 lastWriter>>

NextScenario ==
  \/ SendAway
  \/ MineScenario
  \/ \E p \in Procs : Call(p, "wa")
  \/ \E p \in Procs : BlockNumberOk(p)
  \/ \E p \in Procs : BlockNumberFail(p)
  \/ \E p \in Procs : LogsToOk(p)
  \/ \E p \in Procs : LogsToFail(p)
  \/ \E p \in Procs : LogsFromOk(p)
  \/ \E p \in Procs : LogsFromFail(p)

SpecScenario == InitScenario /\ [][NextScenario]_vars

\* ------------------------------------------------- requests turned away

\* GET /owned with a wallet parameter that is no address, or with no contract
\* configured: the handler answers 400 or 500 and calls nothing.
OwnedRejects(p, q) ==
  /\ calls[p].pc = "idle"
  /\ \A x \in Procs : x < p => calls[x].pc # "idle"
  /\ OwnedCheck(BETTA_CONTRACT, q) # "none"
  /\ calls' = [calls EXCEPT ![p] =
                 [Idle EXCEPT !.pc = "failed", !.w = Normalize(q),
                              !.err = OwnedCheck(BETTA_CONTRACT, q),
                              !.after = {x \in Procs : Ended(calls[x])}]]
  /\ UNCHANGED <<feedVars, netVars, START_BLOCK, LOG_CHUNK, head, events, ownedCache,
                 ownedFile, lastWriter>>

\* A server with or without BETTA_CONTRACT_ADDRESS set, started on a checkpoint
\* file that is empty or holds the checkpoint an earlier run wrote for wallet
\* "wa", which received token 1 in block 1.
InitValidate ==
  /\ START_BLOCK = 1
  /\ LOG_CHUNK \in 1..MaxChunk
  /\ head = 1
  /\ events = <<[blockNumber |-> 1, fromAddress |-> "zz", toAddress |-> "wa",
                 tokenId |-> 1]>>
  /\ ownedCache \in {<<>>,
                      [w \in {"wa"} |-> [lastScannedBlock |-> ToStr(1),
                                          tokenIds |-> <<ToStr(1)>>]]}
  /\ ownedFile = ownedCache
  /\ calls = [p \in Procs |-> Idle]
  /\ lastWriter = [w \in Wallets |-> 0]
  /\ BETTA_CONTRACT \in {Contract, NoContract}
  /\ RPC_URLS = <<"A">>
  /\ rpcCursor = 0
  /\ behaviour = [u \in {"A"} |-> "flaky"]
  /\ rpcs = [r \in Rpcs |-> RpcIdle]
  /\ FeedQuiet

\* Requests with any wallet parameter, those that pass going on to the scan.
NextValidate ==
  \/ \E p \in Procs, q \in Queries : OwnedRejects(p, q)
  \/ \E p \in Procs, q \in Queries : Call(p, q)
  \/ \E p \in Procs : BlockNumberOk(p)
  \/ \E p \in Procs : BlockNumberFail(p)
  \/ \E p \in Procs : LogsToOk(p)
  \/ \E p \in Procs : LogsToFail(p)
  \/ \E p \in Procs : LogsFromOk(p)
  \/ \E p \in Procs : LogsFromFail(p)

SpecValidate == InitValidate /\ [][NextValidate]_vars

\* ------------------------------------------------------------ GET /owned

\* faulty variant: every request is answered from the cache entry
HasCachedTokensAlways(cache, w) == w \in DOMAIN cache

\* variant of the handler without the fast path: no request is answered from
\* the cache
HasCachedTokensNever(cache, w) == FALSE

\* cached && Array.isArray(cached.tokenIds) && cached.tokenIds.length > 0
HasCachedTokens(cache, w) ==
  /\ w \in DOMAIN cache
  /\ Len(cache[w].tokenIds) > 0

\* The fast path of GET /owned: the wallet has a cached checkpoint with at
\* least one token id, which is the answer (cached: true).
OwnedCached(p, q) ==
  /\ calls[p].pc = "idle"
  /\ \A x \in Procs : x < p => calls[x].pc # "idle"
  /\ OwnedCheck(BETTA_CONTRACT, q) = "none"
  /\ HasCachedTokens(ownedCache, Normalize(q))
  /\ calls' = [calls EXCEPT ![p] =
                 [Idle EXCEPT !.pc = "done", !.w = Normalize(q),
                              !.entry = ownedCache[Normalize(q)],
                              !.ret = ownedCache[Normalize(q)],
                              !.cached = TRUE,
                              !.after = {x \in Procs : Ended(calls[x])}]]
  /\ UNCHANGED <<feedVars, netVars, START_BLOCK, LOG_CHUNK, head, events, ownedCache,
                 ownedFile, lastWriter>>

\* The slow path of GET /owned: no cached token id, so the handler awaits
\* updateOwnedTokensForWallet(wallet) and answers with its entry.
OwnedRefresh(p, q) ==
  /\ ~HasCachedTokens(ownedCache, Normalize(q))
  /\ CallAlone(p, q)

\* The response of the request in slot p has been sent: the slot is free for
\* the next request.
Release(p) ==
  /\ Ended(calls[p])
  /\ calls' = [calls EXCEPT ![p] = Idle]
  /\ UNCHANGED <<feedVars, netVars, START_BLOCK, LOG_CHUNK, head, events, ownedCache,
                 ownedFile, lastWriter>>

\* GET /owned for wallet "wa", request after request, while token 1 moves
\* between the wallet and another holder and blocks are mined.
NextOwned ==
  \/ \E to \in {"wa", "zz"} : Transfer(1, to)
  \/ Mine
  \/ \E p \in {1} : OwnedCached(p, "wa")
  \/ \E p \in {1} : OwnedRefresh(p, "wa")
  \/ \E p \in Procs : BlockNumberOk(p)
  \/ \E p \in Procs : BlockNumberFail(p)
  \/ \E p \in Procs : LogsToOk(p)
  \/ \E p \in Procs : LogsToFail(p)
  \/ \E p \in Procs : LogsFromOk(p)
  \/ \E p \in Procs : LogsFromFail(p)
  \/ \E p \in Procs : Release(p)

SpecOwned == Init /\ [][NextOwned]_vars

\* The event loop runs every handler that is ready: a request that arrived is
\* answered, a provider answer that arrived is taken up, and the client keeps
\* asking. The providers answer successfully whenever they are asked.
FairOwned ==
  /\ WF_vars(\E p \in {1} : OwnedCached(p, "wa"))
  /\ WF_vars(\E p \in {1} : OwnedRefresh(p, "wa"))
  /\ WF_vars(\E p \in Procs : BlockNumberOk(p))
  /\ WF_vars(\E p \in Procs : LogsToOk(p))
  /\ WF_vars(\E p \in Procs : LogsFromOk(p))
  /\ WF_vars(\E p \in Procs : Release(p))

SpecOwnedFair == Init /\ [][NextOwned]_vars /\ FairOwned

\* ------------------------------------------------- the sort of the set

\* Token ids as the scan holds them (tid.toString()): two small ones, and
\* 2^53, 2^53 + 1, 2^53 + 2.
IdStrings ==
  {ToStr(1), ToStr(2), Two53, PlusOne(Two53), PlusOne(PlusOne(Two53))}

\* the insertion orders a Set of up to MaxIds of these ids can have
IdSets ==
  {s \in UNION {[1..n -> IdStrings] : n \in 0..MaxIds} :
     \A i, j \in 1..Len(s) : i # j => s[i] # s[j]}

\* A refresh of wallet "wa" from no checkpoint at its last await: the one
\* chunk of block 1 has put the ids of IdSets into the set, in the order the
\* incoming logs had them. (events holds no logs here: its token ids are
\* machine integers, which end below 2^53.)
InitSort ==
  /\ START_BLOCK = 1
  /\ LOG_CHUNK \in 1..MaxChunk
  /\ head = 1
  /\ events = <<>>
  /\ ownedCache = <<>>
  /\ ownedFile = <<>>
  /\ \E s \in IdSets :
        calls = [p \in Procs |->
                   IF p = 1
                   THEN [Idle EXCEPT !.pc = "logsFrom", !.latest = 1, !.from = 1,
                                     !.set = s, !.answered = 1,
                                     !.asked = <<Query(1, 1, "to"), Query(1, 1, "from")>>]
                   ELSE Idle]
  /\ lastWriter = [w \in Wallets |-> 0]
  /\ NetQuiet
  /\ FeedQuiet

\* the outgoing query answers or fails; when it answers the set is sorted
\* and the checkpoint written
NextSort ==
  \/ \E p \in Procs : LogsFromOk(p)
  \/ \E p \in Procs : LogsFromFail(p)

SpecSort == InitSort /\ [][NextSort]_vars

\* ------------------------------------------------ POST /feed, POST /progress

\* the fields of the request bodies: tokenId "1" or none, a rarity in lower
\* case or an unknown rarity, a wallet in either case or none, a fid or none
FeedTokenIds == {ToStr(1), <<>>}

FeedRarities == {"uncommon", "fish"}

FeedWallets == {"wa", "WB", ""}

Fids == {NoFid, 7}

Fishes ==
  UNION {[1..n -> [tokenId : FeedTokenIds, rarity : FeedRarities]] : n \in 0..MaxFishes}

\* the response of a request: the handler, the HTTP status, the error field
Reply(op, status, error) == [op |-> op, status |-> status, error |-> error]

\* POST /feed, the whole handler; the write of the file succeeds, or throws
\* and the handler answers 500.
Feed(tid, r, w, f) ==
  LET g == getOrInitProgress(progressDb, heap, tid, r, w, f)
      rarity == normalizeRarity(r)
      nextOkAt == g.row.lastFeedAt + FEED_COOLDOWN_MS
      level == LevelOf(g.row)
      maxLevel == getMaxLevel(rarity)
      gained == Gain(level, g.row.exp + EXP_PER_FEED, maxLevel)
      isMax == gained.level >= maxLevel
      row == [g.row EXCEPT !.level = gained.level,
                           !.exp = IF isMax THEN expNeededForNext(maxLevel)
                                   ELSE gained.exp,
                           !.rarity = rarity,
                           !.lastFeedAt = now,
                           !.walletAddress = WalletOr(w, @),
                           !.fid = FidOr(f, @)]
      addr == IF g.addr = 0 THEN Len(heap) + 1 ELSE g.addr
      hp == IF g.addr = 0 THEN Append(heap, row) ELSE [g.heap EXCEPT ![addr] = row]
      db == [k \in DOMAIN progressDb \cup {g.key, <<"", tid>>} |->
               IF k \in {g.key, <<"", tid>>} THEN addr ELSE progressDb[k]]
  IN /\ IF tid = <<>>
        THEN /\ reply' = Reply("feed", 400, "INVALID_TOKEN")
             /\ UNCHANGED <<progressDb, heap, progressFile, okAt>>
        ELSE IF nextOkAt > now
        THEN /\ reply' = Reply("feed", 429, "ON_COOLDOWN")
             /\ heap' = g.heap
             /\ UNCHANGED <<progressDb, progressFile, okAt>>
        ELSE IF level >= maxLevel
        THEN /\ reply' = Reply("feed", 200, "none")
             /\ heap' = g.heap
             /\ okAt' = [okAt EXCEPT ![tid] = now]
             /\ UNCHANGED <<progressDb, progressFile>>
        ELSE /\ heap' = hp
             /\ progressDb' = db
             /\ \/ /\ progressFile' =
                        writeJsonAtomic(progressFile, Serialize(db, hp), TRUE)
                   /\ reply' = Reply("feed", 200, "none")
                   /\ okAt' = [okAt EXCEPT ![tid] = now]
                \/ /\ progressFile' =
                        writeJsonAtomic(progressFile, Serialize(db, hp), FALSE)
                   /\ reply' = Reply("feed", 500, "INTERNAL_ERROR")
                   /\ okAt' = okAt
     /\ UNCHANGED <<netVars, idxVars, EXP_PER_FEED, FEED_COOLDOWN_MS, now>>

RECURSIVE ProgressHeap(_, _, _, _, _)
\* the for loop of POST /progress: getOrInitProgress for every fish with a
\* tokenId
ProgressHeap(db, hp, fishes, w, f) ==
  IF fishes = <<>> THEN hp
  ELSE IF Head(fishes).tokenId = <<>> THEN ProgressHeap(db, hp, Tail(fishes), w, f)
  ELSE ProgressHeap(db,
                    getOrInitProgress(db, hp, Head(fishes).tokenId,
                                      Head(fishes).rarity, w, f).heap,
                    Tail(fishes), w, f)

\* POST /progress, the whole handler
Progress(fishes, w, f) ==
  /\ IF fishes = <<>>
     THEN /\ reply' = Reply("progress", 400, "INVALID_FISHES")
          /\ UNCHANGED heap
     ELSE /\ reply' = Reply("progress", 200, "none")
          /\ heap' = ProgressHeap(progressDb, heap, fishes, w, f)
  /\ UNCHANGED <<netVars, idxVars, EXP_PER_FEED, FEED_COOLDOWN_MS, now, progressDb,
                 progressFile, okAt>>

\* time passes
Tick ==
  /\ now < MaxNow
  /\ now' = now + 1
  /\ UNCHANGED <<netVars, idxVars, EXP_PER_FEED, FEED_COOLDOWN_MS, progressDb, heap,
                 progressFile, reply, okAt>>

\* A server started on an empty progress file and on the checkpoint of wallet
\* "wa", which holds token 1; EXP_PER_FEED is the default or a large value.
InitFeed ==
  /\ START_BLOCK = 1
  /\ LOG_CHUNK = 1
  /\ head = 1
  /\ events = <<[blockNumber |-> 1, fromAddress |-> "zz", toAddress |-> "wa",
                 tokenId |-> 1]>>
  /\ ownedCache = [w \in {"wa"} |-> [lastScannedBlock |-> ToStr(1),
                                     tokenIds |-> <<ToStr(1)>>]]
  /\ ownedFile = ownedCache
  /\ calls = [p \in Procs |-> Idle]
  /\ lastWriter = [w \in Wallets |-> 0]
  /\ NetQuiet
  /\ EXP_PER_FEED \in {20, 6000}
  /\ FEED_COOLDOWN_MS = 2
  /\ now = FEED_COOLDOWN_MS
  /\ progressDb = <<>>
  /\ heap = <<>>
  /\ progressFile = <<>>
  /\ reply = NoReply
  /\ okAt = [t \in {ToStr(1)} |-> Never]

NextFeed ==
  \/ \E tid \in FeedTokenIds, r \in FeedRarities, w \in FeedWallets, f \in Fids :
        Feed(tid, r, w, f)
  \/ \E fishes \in Fishes, w \in FeedWallets, f \in Fids : Progress(fishes, w, f)
  \/ Tick

SpecFeed == InitFeed /\ [][NextFeed]_vars

\* ------------------------------------------------------ malformed logs

\* The provider returns, for the block being built, a Transfer log whose
\* fourth topic is missing or is no number, from or to any address.
Junk(f, to, topic) ==
  /\ Len(events) < MaxEvents
  /\ head < MaxHead
  /\ f # to
  /\ events' = Append(events, [blockNumber |-> head + 1, fromAddress |-> f,
                               toAddress |-> to, tokenId |-> topic])
  /\ UNCHANGED <<feedVars, netVars, START_BLOCK, LOG_CHUNK, head, ownedCache, ownedFile,
                 calls, lastWriter>>

\* no request has been made yet
Quiet == \A p \in Procs : calls[p].pc = "idle"

\* the history grows before the first request: token 1 moves between the
\* wallet and another holder, malformed logs appear, blocks are mined
TransferFirst(to) == Quiet /\ Transfer(1, to)

JunkFirst(f, to, topic) == Quiet /\ Junk(f, to, topic)

MineFirst == Quiet /\ Mine

\* One refresh of wallet "wa" from no checkpoint, on a history that holds
\* malformed logs to and from that wallet.
NextMalformed ==
  \/ \E to \in {"wa", "zz"} : TransferFirst(to)
  \/ \E topic \in {NoTopic, BadTopic} : JunkFirst("zz", "wa", topic)
  \/ \E topic \in {NoTopic, BadTopic} : JunkFirst("wa", "zz", topic)
  \/ MineFirst
  \/ \E p \in {1} : CallAlone(p, "wa")
  \/ \E p \in Procs : BlockNumberOk(p)
  \/ \E p \in Procs : BlockNumberFail(p)
  \/ \E p \in Procs : LogsToOk(p)
  \/ \E p \in Procs : LogsToFail(p)
  \/ \E p \in Procs : LogsFromOk(p)
  \/ \E p \in Procs : LogsFromFail(p)

SpecMalformed == Init /\ [][NextMalformed]_vars

\* ----------------------------------------------------------------- rpc()

\* Any configuration of up to MaxEndpoints endpoints (none: BASE_RPC_URLS
\* holds only commas or blanks). Either each endpoint is up or down for the
\* whole run, or every endpoint answers each attempt in any way.
InitRpc ==
  /\ START_BLOCK = 1
  /\ LOG_CHUNK = 1
  /\ head = 0
  /\ events = <<>>
  /\ ownedCache = <<>>
  /\ ownedFile = <<>>
  /\ calls = [p \in Procs |-> Idle]
  /\ lastWriter = [w \in Wallets |-> 0]
  /\ BETTA_CONTRACT = Contract
  /\ RPC_URLS \in {SubSeq(Urls, 1, n) : n \in 0..MaxEndpoints}
  /\ rpcCursor = 0
  /\ behaviour \in [Range(Pool(RPC_URLS)) -> {"up", "down"}] \cup
                    {[u \in Range(Pool(RPC_URLS)) |-> "flaky"]}
  /\ rpcs = [r \in Rpcs |-> RpcIdle]
  /\ FeedQuiet

\* rpc() up to its first fetch: the rotation is picked, the cursor advances,
\* the request goes to the first endpoint of the rotation.
RpcCall(r) ==
  LET pick == pickRpcUrlsRoundRobin(RPC_URLS, rpcCursor)
  IN /\ rpcs[r].pc = "idle"
     /\ \A q \in Rpcs : q < r => rpcs[q].pc # "idle"
     /\ Cardinality({q \in Rpcs : rpcs[q].pc = "fetch"}) < MaxInFlight
     /\ rpcs' = [rpcs EXCEPT ![r] =
                  [RpcIdle EXCEPT !.pc = "fetch", !.urls = pick.ordered,
                                  !.i = 1, !.k = 1]]
     /\ rpcCursor' = pick.cursor
     /\ UNCHANGED <<feedVars, idxVars, BETTA_CONTRACT, RPC_URLS, behaviour>>

\* faulty variant: every attempt goes to the first endpoint of the rotation
UrlOfFirst(c) == c.urls[1]

\* for (const url of urls): the endpoint of the attempt in flight
UrlOf(c) == c.urls[c.i]

\* one attempt as the history keeps it: the endpoint, how it answered, and
\* the message of the error it threw
Attempt(c, ans) ==
  [url |-> UrlOf(c), ans |-> ans, msg |-> IF ans = "ok" THEN <<>> ELSE ErrorOf(ans)]

\* The endpoint answers with a result: rpc() returns it.
FetchOk(r) ==
  LET c == rpcs[r]
  IN /\ c.pc = "fetch"
     /\ "ok" \in Answers(behaviour[UrlOf(c)])
     /\ rpcs' = [rpcs EXCEPT ![r] =
                  [c EXCEPT !.pc = "returned", !.out = [from |-> UrlOf(c)],
                            !.tried = Append(c.tried, Attempt(c, "ok"))]]
     /\ UNCHANGED <<feedVars, idxVars, BETTA_CONTRACT, RPC_URLS, rpcCursor, behaviour>>

\* The catch block: lastErr = e; an error that shouldFailover accepts goes on
\* with the next backoff of the endpoint, then with the next endpoint, and
\* after the last one lastErr is thrown; any other error is thrown at once.
Caught(r, ans) ==
  LET c == rpcs[r]
      e == [msg |-> ErrorOf(ans), url |-> UrlOf(c), n |-> Len(c.tried) + 1]
      t == Append(c.tried, Attempt(c, ans))
  IN /\ rpcs' = [rpcs EXCEPT ![r] =
          IF ~shouldFailover(e.msg)
          THEN [c EXCEPT !.pc = "raised", !.lastErr = e, !.err = e, !.tried = t]
          ELSE IF c.k < Len(Backoffs)
          THEN [c EXCEPT !.k = c.k + 1, !.lastErr = e, !.tried = t]
          ELSE IF c.i < Len(c.urls)
          THEN [c EXCEPT !.i = c.i + 1, !.k = 1, !.lastErr = e, !.tried = t]
          ELSE [c EXCEPT !.pc = "raised", !.lastErr = e, !.err = e, !.tried = t]]
     /\ UNCHANGED <<feedVars, idxVars, BETTA_CONTRACT, RPC_URLS, rpcCursor, behaviour>>

\* The attempt fails with an error that carries a failover signal.
FetchTransient(r) ==
  /\ rpcs[r].pc = "fetch"
  /\ "transient" \in Answers(behaviour[UrlOf(rpcs[r])])
  /\ Caught(r, "transient")

\* The attempt fails with an error that carries none.
FetchFatal(r) ==
  /\ rpcs[r].pc = "fetch"
  /\ "fatal" \in Answers(behaviour[UrlOf(rpcs[r])])
  /\ Caught(r, "fatal")

NextRpc ==
  \/ \E r \in Rpcs : RpcCall(r)
  \/ \E r \in Rpcs : FetchOk(r)
  \/ \E r \in Rpcs : FetchTransient(r)
  \/ \E r \in Rpcs : FetchFatal(r)

SpecRpc == InitRpc /\ [][NextRpc]_vars

\* A server started on the checkpoint file of an earlier run: wallet "wa",
\* which received token 1 in block 2, has no checkpoint or the one of a scan
\* through any block, START_BLOCK may have been configured above it, and the
\* provider answers any head up to MaxSpan, also one below the checkpoint.
\* LOG_CHUNK is BigInt(process.env.BETTA_LOG_CHUNK) as it is, which can be 0.
InitRanges ==
  /\ START_BLOCK \in {1, 2}
  /\ LOG_CHUNK \in 0..MaxChunk
  /\ head \in 0..MaxSpan
  /\ events = <<[blockNumber |-> 2, fromAddress |-> "zz", toAddress |-> "wa",
                 tokenId |-> 1]>>
  /\ ownedCache \in {<<>>} \cup
        {[w \in {"wa"} |->
            [lastScannedBlock |-> ToStr(k),
             tokenIds |-> IF k >= 2 THEN <<ToStr(1)>> ELSE <<>>]] :
           k \in 0..MaxSpan}
  /\ ownedFile = ownedCache
  /\ calls = [p \in Procs |-> Idle]
  /\ lastWriter = [w \in Wallets |-> 0]
  /\ NetQuiet
  /\ FeedQuiet

NextRanges ==
  \/ \E p \in Procs : CallAlone(p, "wa")
  \/ \E p \in Procs : BlockNumberOk(p)
  \/ \E p \in Procs : BlockNumberFail(p)
  \/ \E p \in Procs : LogsToOk(p)
  \/ \E p \in Procs : LogsToFail(p)
  \/ \E p \in Procs : LogsFromOk(p)
  \/ \E p \in Procs : LogsFromFail(p)

SpecRanges == InitRanges /\ [][NextRanges]_vars

\* Every provider call of a refresh comes back, with a result or with an
\* error: rpc() makes at most two attempts on each endpoint, and each attempt
\* answers.
FairRanges ==
  /\ WF_vars(\E p \in Procs : BlockNumberOk(p) \/ BlockNumberFail(p))
  /\ WF_vars(\E p \in Procs : LogsToOk(p) \/ LogsToFail(p))
  /\ WF_vars(\E p \in Procs : LogsFromOk(p) \/ LogsFromFail(p))

SpecRangesFair == InitRanges /\ [][NextRanges]_vars /\ FairRanges

\* ------------------------------------------- the scan as a pure function

RECURSIVE ScanChunks(_, _, _, _, _, _)
\* The for loop of updateOwnedTokensForWallet run to its end over the logs
\* evs: per chunk, the incoming logs are added and then the outgoing deleted.
ScanChunks(evs, w, s, from, latest, chunk) ==
  IF LoopDone(from, latest) THEN s
  ELSE LET to == ChunkTo(from, latest, chunk)
           s1 == AddLogs(s, getTransferLogs(evs, from, to, AnyAddr, w))
           s2 == DeleteLogs(s1, getTransferLogs(evs, from, to, w, AnyAddr))
       IN ScanChunks(evs, w, s2, from + chunk, latest, chunk)

\* The checkpoint one uninterrupted call builds from the entry e it read and
\* the head latest it was answered.
RefreshResult(evs, w, e, latest, chunk, startBlock) ==
  NewEntry(latest,
           ScanChunks(evs, w, SeedSet(e), StartOf(e, startBlock), latest, chunk))

\* ---------------------------------------------------------------- claims

Done(p) == calls[p].pc = "done"

\* the token ids of a checkpoint, as a set of decimal strings
IdSet(e) == Range(e.tokenIds)

RECURSIVE FoldHistory(_, _, _)
\* The ownership fold of the data model: over the events up to block upTo, in
\* block order, add the token when toAddress is w, remove it when fromAddress
\* is w.
FoldHistory(evs, w, upTo) ==
  IF evs = <<>> THEN {}
  ELSE LET e == evs[Len(evs)]
           prev == FoldHistory(SubSeq(evs, 1, Len(evs) - 1), w, upTo)
           id == ToStr(e.tokenId)
       IN IF e.blockNumber > upTo THEN prev
          ELSE IF e.toAddress = w THEN prev \cup {id}
          ELSE IF e.fromAddress = w THEN prev \ {id}
          ELSE prev

\* C1: after every successful refresh the returned and the persisted tokenIds
\* of the wallet are the fold of the whole transfer history from genesis
\* through lastScannedBlock, for every history and chunk size.
C1_TokenIdsAreFoldOfHistory ==
  /\ \A p \in Procs : Done(p) =>
        IdSet(calls[p].ret) =
          FoldHistory(events, calls[p].w, BigInt(calls[p].ret.lastScannedBlock))
  /\ \A w \in DOMAIN ownedFile :
        IdSet(ownedFile[w]) =
          FoldHistory(events, w, BigInt(ownedFile[w].lastScannedBlock))

\* C2: for the history and head a refresh has seen, every chunk size >= 1
\* gives the tokenIds that the configured chunk size gave.
C2_ChunkSizeIndependent ==
  \A p \in Procs : Done(p) =>
     \A chunk \in 1..MaxChunk :
        RefreshResult(events, calls[p].w, calls[p].entry, calls[p].latest,
                      chunk, START_BLOCK).tokenIds = calls[p].ret.tokenIds

\* a step in which call p ends with err
EndsWith(p, err) == Running(calls[p]) /\ calls'[p].pc = "failed" /\ calls'[p].err = err

\* the step answers the last await of call p: the outgoing query of the chunk
\* that reaches latest, or a head below the first block to scan
AtLastAwait(p) ==
  \/ /\ calls[p].pc = "logsFrom"
     /\ ChunkTo(calls[p].from, calls[p].latest, LOG_CHUNK) = calls[p].latest
  \/ /\ calls[p].pc = "head"
     /\ StartOf(calls[p].entry, START_BLOCK) > calls'[p].latest

\* C3: a refresh that ends because a provider call failed (head query or a
\* log query of any chunk) changes neither ownedCache nor the file, and the
\* only steps that change them are those of a call whose every chunk has
\* been answered: nothing is committed before all chunks have completed.
C3_ProviderFailureCommitsNothing ==
  [][ /\ \A p \in Procs : EndsWith(p, "provider") =>
            ownedCache' = ownedCache /\ ownedFile' = ownedFile
      /\ (ownedCache' # ownedCache \/ ownedFile' # ownedFile) =>
            \E p \in Procs : AtLastAwait(p) /\ Ended(calls'[p])
                             /\ calls'[p].err # "provider" ]_vars

\* C3 witness: a call failed at a provider call of a later chunk, after logs
\* of the wallet had been read, and the wallet's checkpoint is the one the
\* call started from.
C3_Witness ==
  \E p \in Procs :
     /\ calls[p].pc = "failed" /\ calls[p].err = "provider"
     /\ calls[p].from > StartOf(calls[p].entry, START_BLOCK)
     /\ getTransferLogs(events, START_BLOCK, calls[p].latest, AnyAddr, calls[p].w) # <<>>
     /\ EntryOf(ownedCache, calls[p].w) = calls[p].entry
     /\ EntryOf(ownedFile, calls[p].w) = calls[p].entry

\* C4: when writeJsonAtomic throws, the call fails and the in-memory
\* ownedCache is what it was before the step.
C4_StorageFailureLeavesCache ==
  [][ \A p \in Procs : EndsWith(p, "storage") => ownedCache' = ownedCache ]_vars

\* C5: of two successful refresh calls for one wallet, the second made after
\* the first returned, the second does not persist a lower lastScannedBlock,
\* whatever head eth_blockNumber answered.
C5_SequentialScansNeverGoBack ==
  \A p, q \in Procs :
     (Done(p) /\ Done(q) /\ p \in calls[q].after /\ calls[p].w = calls[q].w) =>
        BigInt(calls[q].ret.lastScannedBlock) >= BigInt(calls[p].ret.lastScannedBlock)

\* the calls made so far are all for wallet w
OnlyWallet(w) == \A q \in Procs : calls[q].pc # "idle" => calls[q].w = w

\* C6: while the calls made are refreshes of one wallet, interleaved at their
\* awaits in any way, the persisted checkpoint is the one returned by the
\* call that wrote last, and every returned checkpoint is the one the call
\* builds running alone from the entry and the head it read.
C6_LastCommitIsSelfConsistent ==
  /\ \A p \in Procs : Done(p) =>
        calls[p].ret = RefreshResult(events, calls[p].w, calls[p].entry,
                                     calls[p].latest, LOG_CHUNK, START_BLOCK)
  /\ \A w \in Wallets : \A p \in Procs :
        (OnlyWallet(w) /\ lastWriter[w] = p) =>
           /\ Done(p)
           /\ w \in DOMAIN ownedFile
           /\ ownedFile[w] = calls[p].ret

\* C6 witness: two calls for one wallet overlapped, both read the same prior
\* entry and different heads, the one made first wrote last, and its
\* checkpoint (the older head) is the persisted one.
C6_Witness ==
  /\ Done(1) /\ Done(2)
  /\ calls[1].w = calls[2].w
  /\ calls[2].after = {}
  /\ calls[1].entry = calls[2].entry
  /\ calls[1].latest < calls[2].latest
  /\ calls[1].ret.tokenIds # calls[2].ret.tokenIds
  /\ lastWriter[calls[1].w] = 1
  /\ ownedFile[calls[1].w] = calls[1].ret

\* C7: with a head that never decreases, no step lowers the persisted
\* lastScannedBlock of a wallet, under any interleaving of refresh calls.
C7_ConcurrentScansNeverGoBack ==
  [][ \A w \in DOMAIN ownedFile :
         /\ w \in DOMAIN ownedFile'
         /\ BigInt(ownedFile'[w].lastScannedBlock) >=
              BigInt(ownedFile[w].lastScannedBlock) ]_vars

\* C8: a step of a refresh of wallet X changes the checkpoint of no other
\* wallet, in ownedCache or in the file.
C8_OtherWalletsUntouched ==
  [][ \A p \in Procs : (Running(calls[p]) /\ calls'[p] # calls[p]) =>
         \A y \in Wallets \ {calls[p].w} :
            /\ EntryOf(ownedCache', y) = EntryOf(ownedCache, y)
            /\ EntryOf(ownedFile', y) = EntryOf(ownedFile, y) ]_vars

\* no Transfer to or from w lies in the blocks lo+1 .. hi
NoEventsBetween(w, lo, hi) ==
  /\ getTransferLogs(events, lo + 1, hi, AnyAddr, w) = <<>>
  /\ getTransferLogs(events, lo + 1, hi, w, AnyAddr) = <<>>

\* C10: a successful refresh that starts from the checkpoint of an earlier
\* successful refresh of the wallet, with no transfer of the wallet in the
\* blocks between the two heads, returns the same tokenIds and the head it
\* observed as lastScannedBlock.
C10_IdempotentWithoutNewEvents ==
  \A p, q \in Procs :
     ( /\ Done(p) /\ Done(q) /\ p # q
       /\ calls[p].w = calls[q].w
       /\ calls[q].entry = calls[p].ret
       /\ NoEventsBetween(calls[q].w, calls[p].latest, calls[q].latest) ) =>
        /\ calls[q].ret.tokenIds = calls[p].ret.tokenIds
        /\ calls[q].ret.lastScannedBlock = ToStr(calls[q].latest)

\* C10 witness: the first refresh found a token, the head moved on with no
\* new transfer of the wallet, and the second refresh scanned the new blocks.
C10_Witness ==
  \E p, q \in Procs :
     /\ Done(p) /\ Done(q) /\ p # q
     /\ calls[p].w = calls[q].w
     /\ calls[q].entry = calls[p].ret
     /\ calls[p].ret.tokenIds # <<>>
     /\ calls[q].latest > calls[p].latest
     /\ NoEventsBetween(calls[q].w, calls[p].latest, calls[q].latest)
     /\ calls[q].ret.tokenIds = calls[p].ret.tokenIds

HeadAnswer(p) ==
  calls[p].pc = "head" /\ calls'[p].pc # "head" /\ ~EndsWith(p, "provider")

\* C11: when eth_blockNumber answers a head below the first block to scan
\* (start > latest) the call ends in that step without having sent any
\* eth_getLogs query, and unless the write of the file throws it returns a
\* checkpoint with the token ids of the prior checkpoint as a set and the
\* answered head as lastScannedBlock, which is then the wallet's entry in
\* ownedCache and in the file.
C11_NothingToScanKeepsSet ==
  [][ \A p \in Procs :
        (HeadAnswer(p) /\ StartOf(calls[p].entry, START_BLOCK) > calls'[p].latest) =>
           /\ calls'[p].asked = <<>>
           /\ Ended(calls'[p])
           /\ \/ calls'[p].pc = "failed" /\ calls'[p].err = "storage"
              \/ /\ calls'[p].pc = "done"
                 /\ IdSet(calls'[p].ret) = IdSet(calls[p].entry)
                 /\ calls'[p].ret.lastScannedBlock = ToStr(calls'[p].latest)
                 /\ ownedCache'[calls[p].w] = calls'[p].ret
                 /\ ownedFile'[calls[p].w] = calls'[p].ret ]_vars

\* C11 witness: a call that started from a checkpoint with a token was
\* answered a head below that checkpoint, sent no log query and returned the
\* same token ids with the answered head, which the file now holds.
C11_Witness ==
  \E p \in Procs :
     /\ Done(p)
     /\ calls[p].entry.tokenIds # <<>>
     /\ calls[p].entry.lastScannedBlock # Null
     /\ calls[p].latest < BigInt(calls[p].entry.lastScannedBlock)
     /\ calls[p].asked = <<>>
     /\ calls[p].ret.tokenIds = calls[p].entry.tokenIds
     /\ calls[p].ret.lastScannedBlock = ToStr(calls[p].latest)
     /\ ownedFile[calls[p].w] = calls[p].ret

\* eth_blockNumber of call p has been answered
HeadKnown(p) ==
  /\ calls[p].pc \notin {"idle", "head"}
  /\ ~(calls[p].pc = "failed" /\ calls[p].err = "provider" /\ calls[p].asked = <<>>)

\* max(genesis block, prior lastScannedBlock + 1), the genesis block for a
\* wallet never scanned
FirstBlock(e) ==
  IF e.lastScannedBlock = Null THEN START_BLOCK
  ELSE IF BigInt(e.lastScannedBlock) + 1 >= START_BLOCK
       THEN BigInt(e.lastScannedBlock) + 1
       ELSE START_BLOCK

\* the blocks the eth_getLogs queries of call p asked for with topic tp
BlocksAsked(p, tp) ==
  UNION {q.fromBlock..q.toBlock : q \in {x \in Range(calls[p].asked) : x.topic = tp}}

\* C12: the first block a refresh queries is max(START_BLOCK, prior
\* lastScannedBlock + 1), START_BLOCK for a wallet without checkpoint; a
\* refresh whose first block is not above the answered head does query, and
\* one that returned has queried, for incoming and for outgoing logs, every
\* block from that first block through the head inclusive.
C12_ScanStartsAfterCheckpoint ==
  \A p \in Procs :
     /\ calls[p].asked # <<>> => calls[p].asked[1].fromBlock = FirstBlock(calls[p].entry)
     /\ (HeadKnown(p) /\ FirstBlock(calls[p].entry) <= calls[p].latest) =>
           /\ calls[p].asked # <<>>
           /\ calls[p].latest = head
     /\ (Done(p) /\ FirstBlock(calls[p].entry) <= calls[p].latest) =>
           /\ BlocksAsked(p, "to") = FirstBlock(calls[p].entry)..head
           /\ BlocksAsked(p, "from") = FirstBlock(calls[p].entry)..head

\* C12 witness: a refresh started from a checkpoint above the genesis block,
\* queried from the block after it and returned with the head as last block.
C12_Witness ==
  \E p \in Procs :
     /\ Done(p)
     /\ calls[p].entry.lastScannedBlock # Null
     /\ BigInt(calls[p].entry.lastScannedBlock) + 1 > START_BLOCK
     /\ calls[p].asked # <<>>
     /\ calls[p].asked[1].fromBlock = BigInt(calls[p].entry.lastScannedBlock) + 1
     /\ calls[p].asked[Len(calls[p].asked)].toBlock = head
     /\ head > calls[p].asked[1].fromBlock

\* C13: the ranges of the eth_getLogs queries of a refresh have fromBlock <=
\* toBlock <= latest and at most LOG_CHUNK blocks; each range is asked for
\* incoming and then for outgoing logs; the next range starts at the block
\* after the previous toBlock; the first starts at startBlock; and when the
\* refresh returns the last one ends at latest, so that the ranges cover
\* [startBlock, latest] with no gap and no overlap, in ascending order.
C13_RangesPartitionTheScan ==
  \A p \in Procs :
     LET a == calls[p].asked
     IN /\ \A i \in 1..Len(a) :
             /\ a[i].fromBlock <= a[i].toBlock
             /\ a[i].toBlock - a[i].fromBlock + 1 <= LOG_CHUNK
             /\ a[i].toBlock <= calls[p].latest
             /\ a[i].topic = IF i % 2 = 1 THEN "to" ELSE "from"
        /\ \A i \in 1..(Len(a) - 1) :
             IF a[i].topic = "to"
             THEN a[i + 1].fromBlock = a[i].fromBlock /\ a[i + 1].toBlock = a[i].toBlock
             ELSE a[i + 1].fromBlock = a[i].toBlock + 1
        /\ a # <<>> => a[1].fromBlock = StartOf(calls[p].entry, START_BLOCK)
        /\ (Done(p) /\ StartOf(calls[p].entry, START_BLOCK) <= calls[p].latest) =>
             /\ a # <<>>
             /\ a[Len(a)].toBlock = calls[p].latest
             /\ a[Len(a)].topic = "from"

\* ------------------------------------------------- claims about rpc()

\* the endpoints in use
Endpoints == Range(Pool(RPC_URLS))

\* the attempts call r has made on endpoint u
AttemptsOn(r, u) == {i \in 1..Len(rpcs[r].tried) : rpcs[r].tried[i].url = u}

\* the first endpoint of the rotation of call r that answers with a result
FirstUp(r) ==
  LET up == {i \in 1..Len(rpcs[r].urls) : behaviour[rpcs[r].urls[i]] = "up"}
  IN rpcs[r].urls[CHOOSE i \in up : \A j \in up : i <= j]

\* C14: when every attempt on some endpoints fails with a transient error and
\* the other endpoints answer (as with [A, B], A failing, B answering), no
\* provider call raises, and a call that has ended returned the result of the
\* first answering endpoint of its rotation, after two attempts on each
\* failing endpoint before it, whichever endpoint the cursor put first.
C14_FailoverReachesHealthyEndpoint ==
  ( /\ \A u \in Endpoints : behaviour[u] \in {"up", "down"}
    /\ \E u \in Endpoints : behaviour[u] = "up" ) =>
     \A r \in Rpcs :
        /\ rpcs[r].pc # "raised"
        /\ rpcs[r].pc = "returned" =>
              /\ rpcs[r].out = [from |-> FirstUp(r)]
              /\ \A u \in Endpoints :
                    Cardinality(AttemptsOn(r, u)) \in
                       IF u = FirstUp(r) THEN {1}
                       ELSE IF behaviour[u] = "down" THEN {0, 2} ELSE {0}

\* C14 witness: endpoints [A, B], A always failing and B answering; the call
\* whose rotation starts at A returned B's result after two attempts on A,
\* the call whose rotation starts at B returned B's result at once.
C14_Witness ==
  /\ RPC_URLS = <<"A", "B">>
  /\ behaviour["A"] = "down" /\ behaviour["B"] = "up"
  /\ rpcs[1].pc = "returned" /\ rpcs[1].urls = <<"A", "B">>
  /\ Len(rpcs[1].tried) = 3 /\ rpcs[1].out = [from |-> "B"]
  /\ rpcs[2].pc = "returned" /\ rpcs[2].urls = <<"B", "A">>
  /\ Len(rpcs[2].tried) = 1 /\ rpcs[2].out = [from |-> "B"]

\* the error attempt i of call r threw
ErrorAt(r, i) ==
  [msg |-> rpcs[r].tried[i].msg, url |-> rpcs[r].tried[i].url, n |-> i]

\* C15: no provider call makes more than 2 attempts per endpoint; when every
\* attempt on every endpoint fails with a transient error, a call does not
\* return, and when it has ended it has made exactly 2 attempts on each
\* endpoint, 2 x the number of endpoints in all, and raised the error of the
\* last attempt.
C15_ExhaustionAfterTwoAttemptsEach ==
  \A r \in Rpcs :
     /\ Len(rpcs[r].tried) <= 2 * Cardinality(Endpoints)
     /\ \A u \in Endpoints : Cardinality(AttemptsOn(r, u)) <= 2
     /\ (\A u \in Endpoints : behaviour[u] = "down") =>
           /\ rpcs[r].pc # "returned"
           /\ rpcs[r].pc = "raised" =>
                 /\ Len(rpcs[r].tried) = 2 * Cardinality(Endpoints)
                 /\ \A u \in Endpoints : Cardinality(AttemptsOn(r, u)) = 2
                 /\ rpcs[r].err = ErrorAt(r, Len(rpcs[r].tried))
                 /\ rpcs[r].err.url = rpcs[r].urls[Len(rpcs[r].urls)]

\* C15 witness: three endpoints that always fail, and a call that raised
\* after six attempts with the error of the sixth.
C15_Witness ==
  \E r \in Rpcs :
     /\ Len(RPC_URLS) = 3
     /\ \A u \in Endpoints : behaviour[u] = "down"
     /\ rpcs[r].pc = "raised"
     /\ Len(rpcs[r].tried) = 6
     /\ rpcs[r].err.n = 6

\* C16: an attempt that failed with a fatal error is the last attempt of its
\* call, on any endpoint, and the call has raised that error.
C16_FatalErrorRaisedAtOnce ==
  \A r \in Rpcs : \A i \in 1..Len(rpcs[r].tried) :
     rpcs[r].tried[i].ans = "fatal" =>
        /\ i = Len(rpcs[r].tried)
        /\ rpcs[r].pc = "raised"
        /\ rpcs[r].err = ErrorAt(r, i)

\* C16 witness: with three endpoints, a call raised the fatal error of its
\* first attempt, and one raised the fatal error of a second attempt.
C16_Witness ==
  \E r, q \in Rpcs :
     /\ Len(RPC_URLS) = 3
     /\ rpcs[r].pc = "raised" /\ Len(rpcs[r].tried) = 1
     /\ rpcs[r].tried[1].ans = "fatal"
     /\ rpcs[q].pc = "raised" /\ Len(rpcs[q].tried) = 2
     /\ rpcs[q].tried[2].ans = "fatal"

\* C17: attempt i of a provider call goes to endpoint (i + 1) \div 2 of the
\* rotation the call was given: each endpoint is tried, after a transient
\* error once more, before the next endpoint is; every attempt but the last
\* failed with a transient error; an attempt that was answered is the last,
\* and the call returned its result.
C17_AttemptsFollowRotation ==
  \A r \in Rpcs :
     LET t == rpcs[r].tried
     IN /\ \A i \in 1..Len(t) :
             /\ (i + 1) \div 2 <= Len(rpcs[r].urls)
             /\ t[i].url = rpcs[r].urls[(i + 1) \div 2]
             /\ i < Len(t) => t[i].ans = "transient"
             /\ t[i].ans = "ok" =>
                   /\ rpcs[r].pc = "returned"
                   /\ rpcs[r].out = [from |-> t[i].url]
        /\ rpcs[r].pc = "returned" => (t # <<>> /\ t[Len(t)].ans = "ok")
        /\ rpcs[r].pc = "fetch" =>
             /\ (Len(t) + 2) \div 2 <= Len(rpcs[r].urls)
             /\ t # <<>> => t[Len(t)].ans = "transient"

\* C17 witness: a call given the rotation [B, C, A] failed on B, failed on B
\* again, failed on C and was answered by C at the second attempt.
C17_Witness ==
  \E r \in Rpcs :
     /\ rpcs[r].urls = <<"B", "C", "A">>
     /\ rpcs[r].pc = "returned"
     /\ Len(rpcs[r].tried) = 4
     /\ rpcs[r].tried[2].url = "B" /\ rpcs[r].tried[3].url = "C"
     /\ rpcs[r].out = [from |-> "C"]

\* the provider calls made so far; call r is the r-th call of
\* pickRpcUrlsRoundRobin
Started == {r \in Rpcs : rpcs[r].pc # "idle"}

\* C18: the r-th call of pickRpcUrlsRoundRobin returns every endpoint once,
\* as the rotation of the configured order that starts at the cursor, which
\* is r - 1 modulo the endpoint count at that call; the cursor advances by one
\* modulo the count with each call and stays in [0, count); in any count
\* consecutive calls each endpoint is first exactly once.
C18_RoundRobinRotation ==
  LET pool == Pool(RPC_URLS)
      n == Len(pool)
  IN /\ rpcCursor \in 0..(n - 1)
     /\ rpcCursor = Cardinality(Started) % n
     /\ \A r \in Started :
           /\ Len(rpcs[r].urls) = n
           /\ \A u \in Endpoints :
                 Cardinality({i \in 1..n : rpcs[r].urls[i] = u}) = 1
           /\ \A i \in 1..n :
                 rpcs[r].urls[i] = pool[((((r - 1) % n) + i - 1) % n) + 1]
     /\ \A r \in Started :
           (\A q \in r..(r + n - 1) : q \in Started) =>
              \A u \in Endpoints :
                 Cardinality({q \in r..(r + n - 1) : rpcs[q].urls[1] = u}) = 1

\* C18 witness: with endpoints [A, B, C], three calls were given [A, B, C],
\* [B, C, A] and [C, A, B], and the cursor is back at 0.
C18_Witness ==
  /\ RPC_URLS = <<"A", "B", "C">>
  /\ rpcs[1].urls = <<"A", "B", "C">>
  /\ rpcs[2].urls = <<"B", "C", "A">>
  /\ rpcs[3].urls = <<"C", "A", "B">>
  /\ rpcCursor = 0

\* ------------------------------------------- claims about malformed logs

\* log lg has a fourth topic that is a number
WellFormed(lg) == lg.tokenId \notin {NoTopic, BadTopic}

\* the history without its malformed logs
WithoutMalformed(evs) == SelectSeq(evs, WellFormed)

\* C19: malformed logs make no refresh fail, and a refresh that returned has
\* the checkpoint it builds from the history with the malformed logs taken
\* out: every well-formed log of a range is applied, incoming ones added and
\* outgoing ones removed, as if the malformed ones were absent.
C19_MalformedLogsAreDropped ==
  \A p \in Procs :
     /\ calls[p].err \in {"none", "provider", "storage"}
     /\ Done(p) =>
          /\ calls[p].ret =
                RefreshResult(WithoutMalformed(events), calls[p].w, calls[p].entry,
                              calls[p].latest, LOG_CHUNK, START_BLOCK)
          /\ \A i \in 1..Len(calls[p].ret.tokenIds) :
                BigInt(calls[p].ret.tokenIds[i]) \in Tokens

\* C19 witness: a refresh returned the token of a well-formed incoming log
\* although the same range held a malformed incoming log and a malformed
\* outgoing log of the wallet.
C19_Witness ==
  \E p \in Procs : \E i, j, k \in 1..Len(events) :
     /\ Done(p)
     /\ calls[p].entry = NoEntry
     /\ Len(calls[p].asked) = 2
     /\ events[i].toAddress = calls[p].w /\ ~WellFormed(events[i])
     /\ events[j].fromAddress = calls[p].w /\ ~WellFormed(events[j])
     /\ events[k].toAddress = calls[p].w /\ WellFormed(events[k])
     /\ \A x \in {i, j, k} : events[x].blockNumber <= calls[p].latest
     /\ calls[p].ret.tokenIds = <<ToStr(events[k].tokenId)>>

\* ------------------------------------------------- claims about validation

\* the step takes up a request in slot p
Taken(p) == calls[p].pc = "idle" /\ calls'[p].pc # "idle"

\* the step ends the request of slot p at once with err, having sent no
\* provider query and changed no checkpoint
TurnedAway(p, err) ==
  /\ calls'[p].pc = "failed"
  /\ calls'[p].err = err
  /\ calls'[p].asked = <<>>
  /\ ownedCache' = ownedCache
  /\ ownedFile' = ownedFile
  /\ rpcs' = rpcs /\ rpcCursor' = rpcCursor

\* C20: a request whose wallet is no address ends at once with
\* INVALID_WALLET, one with an address but no contract configured ends at
\* once with the different error MISSING_CONTRACT_ENV, in both cases with no
\* provider query sent and ownedCache and the file as they were; any other
\* request goes on to eth_blockNumber.
C20_BadRequestsAreTurnedAway ==
  [][ \A p \in Procs : Taken(p) =>
        IF calls'[p].w \notin Wallets
        THEN TurnedAway(p, "INVALID_WALLET")
        ELSE IF BETTA_CONTRACT = NoContract
        THEN TurnedAway(p, "MISSING_CONTRACT_ENV")
        ELSE calls'[p].pc = "head" ]_vars

\* C20 witness: on a server whose file holds a checkpoint and that has no
\* contract configured, one request was turned away for its wallet and one
\* for the contract, and the checkpoint is as it was.
C20_Witness ==
  /\ BETTA_CONTRACT = NoContract
  /\ calls[1].pc = "failed" /\ calls[1].err = "INVALID_WALLET"
  /\ calls[2].pc = "failed" /\ calls[2].err = "MISSING_CONTRACT_ENV"
  /\ calls[2].w = "wa"
  /\ "wa" \in DOMAIN ownedFile
  /\ ownedFile["wa"].tokenIds = <<ToStr(1)>>
  /\ ownedCache = ownedFile

\* ---------------------------------------------------- claims about GET /owned

\* the Transfer logs of the blocks mined so far
Mined == SelectSeq(events, LAMBDA e : e.blockNumber <= head)

\* token t was transferred out of wallet w in a mined block and is not held by
\* w at the head
Gone(w, t) ==
  /\ \E i \in 1..Len(Mined) : Mined[i].fromAddress = w /\ Mined[i].tokenId = t
  /\ OwnerOf(Mined, t) # w

\* no request for wallet w stands answered with token t among its tokenIds
Absent(w, t) ==
  \A p \in Procs :
     (Done(p) /\ calls[p].w = w) => ToStr(t) \notin Range(calls[p].ret.tokenIds)

\* C21: a token transferred out of the wallet in a block at or below the head,
\* and not held by it since, is from some time on in none of the tokenIds that
\* GET /owned answers with.
C21_OwnedTracksOwnership ==
  \A t \in Tokens : (<>[]Gone("wa", t)) => (<>[]Absent("wa", t))

\* the checkpoint GET /owned finds in the cache has a token id
CachedWithTokens(w) ==
  /\ w \in DOMAIN ownedCache
  /\ ownedCache[w].tokenIds # <<>>

\* C26: a request for a wallet whose cached checkpoint has a token id is
\* answered in that step with the cached tokenIds and lastScannedBlock, sends
\* no provider query and leaves the cache and the file as they are; any other
\* request goes into updateOwnedTokensForWallet, and the answer it gets is the
\* checkpoint that call built, which is then the wallet's entry in the cache.
C26_CachedAnswerOrRefresh ==
  [][ \A p \in Procs :
        /\ Taken(p) =>
             IF CachedWithTokens(calls'[p].w)
             THEN /\ calls'[p].pc = "done"
                  /\ calls'[p].cached
                  /\ calls'[p].ret = ownedCache[calls'[p].w]
                  /\ calls'[p].asked = <<>>
                  /\ ownedCache' = ownedCache
                  /\ ownedFile' = ownedFile
                  /\ rpcs' = rpcs /\ rpcCursor' = rpcCursor
             ELSE /\ calls'[p].pc = "head"
                  /\ ~calls'[p].cached
        /\ (calls[p].pc \in {"head", "logsTo", "logsFrom"} /\ calls'[p].pc = "done") =>
             /\ ~calls'[p].cached
             /\ calls'[p].ret =
                   RefreshResult(events, calls'[p].w, calls'[p].entry,
                                 calls'[p].latest, LOG_CHUNK, START_BLOCK)
             /\ ownedCache'[calls'[p].w] = calls'[p].ret ]_vars

\* C26 witness: after a refresh wrote the checkpoint of the wallet, a request
\* stands answered from the cache, with the token of that checkpoint and no
\* provider query sent.
C26_Witness ==
  \E p \in Procs :
     /\ Done(p)
     /\ calls[p].cached
     /\ calls[p].asked = <<>>
     /\ lastWriter[calls[p].w] # 0
     /\ calls[p].ret = ownedCache[calls[p].w]
     /\ calls[p].ret.tokenIds = <<ToStr(1)>>

\* ------------------------------------------------ claims about the sort

\* C22: the step that ends a scan returns and persists tokenIds that hold
\* every id the set held, exactly as the scan held it, each once, in ascending
\* order of the exact integers, also for ids at or above 2^53.
C22_TokenIdsSortedExactly ==
  [][ \A p \in Procs :
        (calls[p].pc = "logsFrom" /\ calls'[p].pc = "done") =>
           LET ids == calls'[p].ret.tokenIds
           IN /\ ownedFile'[calls[p].w].tokenIds = ids
              /\ Range(ids) = Range(calls[p].set)
              /\ \A i, j \in 1..Len(ids) : i < j => ids[i] # ids[j]
              /\ \A i, j \in 1..Len(ids) : i < j => DigitsLess(ids[i], ids[j]) ]_vars

\* ------------------------------------- claims about the order of the queries

\* C23: a refresh has at most one eth_getLogs query without its answer (as
\* far as its queries are kept), a query is sent only when every earlier one
\* has been answered, and the
\* queries go out in pairs: the incoming query of a chunk, then the outgoing
\* query of the same chunk, then the pair of the next chunk.
C23_QueriesOneAtATime ==
  \A p \in Procs :
     LET a == calls[p].asked
     IN /\ calls[p].answered <= Len(a)
        /\ Len(a) <= calls[p].answered + 1
        /\ (calls[p].pc \in {"logsTo", "logsFrom"} /\ calls[p].answered < MaxAsked)
              => Len(a) = calls[p].answered + 1
        /\ Done(p) => Len(a) = calls[p].answered
        /\ \A i \in 1..Len(a) :
              /\ i % 2 = 1 => a[i].topic = "to"
              /\ i % 2 = 0 => /\ a[i].topic = "from"
                              /\ a[i].fromBlock = a[i - 1].fromBlock
                              /\ a[i].toBlock = a[i - 1].toBlock
              /\ (i > 2 /\ LOG_CHUNK > 0) => a[i].fromBlock > a[i - 2].toBlock

\* C23 witness: a refresh over three chunks returned, having sent six queries
\* and got six answers.
C23_Witness ==
  \E p \in Procs :
     /\ Done(p)
     /\ Len(calls[p].asked) = 6
     /\ calls[p].answered = 6
     /\ calls[p].asked[5].fromBlock > calls[p].asked[3].fromBlock

\* ------------------------------------------------ claims about termination

\* C24: every refresh that was called ends, by returning a checkpoint or by
\* throwing, whatever LOG_CHUNK, the prior checkpoint and the answers of the
\* provider are, as long as every provider call comes back.
C24_EveryRefreshEnds ==
  \A p \in Procs : Running(calls[p]) ~> Ended(calls[p])

\* ------------------------------------ claims about the progression engine

\* token tid is in the tokenIds of the checkpoint of wallet w
Owns(w, tid) == tid \in Range(EntryOf(ownedCache, ToLowerCase(w)).tokenIds)

\* level, exp and lastFeedAt of the stored row of token tid: the row under the
\* bare key, which every feed that writes sets; a fresh row when there is none
StoredRow(db, hp, tid) ==
  IF <<"", tid>> \in DOMAIN db THEN hp[db[<<"", tid>>]]
  ELSE FreshRow(tid, "COMMON", "", NoFid)

\* the step changes level, exp or lastFeedAt of the stored row of token tid
Changes(tid) ==
  LET old == StoredRow(progressDb, heap, tid)
      new == StoredRow(progressDb', heap', tid)
  IN old.level # new.level \/ old.exp # new.exp \/ old.lastFeedAt # new.lastFeedAt

\* C25: a feed request of a wallet for a token is answered ok, or changes
\* level, exp or lastFeedAt of the token, only if the token is in the tokenIds
\* of the checkpoint of that wallet.
C25_FeedOnlyForOwnedTokens ==
  [][ \A tid \in FeedTokenIds, r \in FeedRarities, w \in FeedWallets, f \in Fids :
        (Feed(tid, r, w, f) /\ (reply'.status = 200 \/ Changes(tid)))
           => Owns(w, tid) ]_vars

\* C27: a feed of a token is answered ok: true only when FEED_COOLDOWN_MS or
\* more have passed since the last feed of that token answered ok: true, and a
\* feed that arrives earlier is answered ON_COOLDOWN, whatever level the token
\* has and whatever rarity the requests name.
C27_CooldownBetweenFeeds ==
  [][ \A tid \in FeedTokenIds \ {<<>>}, r \in FeedRarities, w \in FeedWallets,
         f \in Fids :
        (Feed(tid, r, w, f) /\ okAt[tid] # Never) =>
           /\ reply'.status = 200 => now - okAt[tid] >= FEED_COOLDOWN_MS
           /\ now - okAt[tid] < FEED_COOLDOWN_MS => reply'.error = "ON_COOLDOWN" ]_vars

\* C28: a feed answered ok: true leaves the stored row of the token with a
\* level from 1 to the max level of the rarity the request named and not below
\* the level it had, and with 0 <= exp < expNeededForNext(level) when the
\* level is below that max.
C28_LevelAndExpInRange ==
  [][ \A tid \in FeedTokenIds \ {<<>>}, r \in FeedRarities, w \in FeedWallets,
         f \in Fids :
        (Feed(tid, r, w, f) /\ reply'.status = 200) =>
           LET old == StoredRow(progressDb, heap, tid)
               new == StoredRow(progressDb', heap', tid)
               maxLevel == getMaxLevel(normalizeRarity(r))
           IN /\ 1 <= new.level /\ new.level <= maxLevel
              /\ new.level >= old.level
              /\ new.level < maxLevel =>
                    (0 <= new.exp /\ new.exp < expNeededForNext(new.level)) ]_vars

\* the step leaves every row of the in-memory progress store and the progress
\* file as they are
StoreUntouched ==
  /\ Serialize(progressDb', heap') = Serialize(progressDb, heap)
  /\ progressFile' = progressFile

\* C29: POST /progress, and a POST /feed answered ON_COOLDOWN, leave every
\* row of the in-memory progress store, with all its fields, and the progress
\* file as they were.
C29_NoProgressChangeNoWrite ==
  [][ /\ \A fishes \in Fishes, w \in FeedWallets, f \in Fids :
            Progress(fishes, w, f) => StoreUntouched
      /\ \A tid \in FeedTokenIds, r \in FeedRarities, w \in FeedWallets, f \in Fids :
            (Feed(tid, r, w, f) /\ reply'.error = "ON_COOLDOWN") => StoreUntouched
    ]_vars

====
